---- MODULE Spec2Model ----
(***************************************************************************)
(* The part-of-speech notebook 00-POS-Basics.ipynb as a state machine.     *)
(*                                                                         *)
(* Cell 1 imports spacy and loads the model, cell 2 tags a text into a     *)
(* Doc, cell 4 prints the fifth token with the explanation of its tag and  *)
(* cell 5 prints one line per token.  spacy.explain(term) is the glossary  *)
(* lookup "if term in GLOSSARY: return GLOSSARY[term]" that falls through  *)
(* to None; the rows of the glossary are the ones the notebook shows (the  *)
(* POS table of the last cell and the tags of cell 5's output).  The       *)
(* tagger is an opaque collaborator: the Doc of cell 2 is any short token  *)
(* sequence, or the sequence the notebook recorded.  Cell 3 (print of      *)
(* doc.text) calls neither explain nor the token attributes and is left    *)
(* out.                                                                    *)
(***************************************************************************)
EXTENDS Integers, Sequences, FiniteSets, TLC

VARIABLES
  glossary,  \* the rows of the tag table spacy.explain reads
  doc,       \* the Doc of cell 2: the tagger's tokens, in order
  pc,        \* the cell to run next ("cell2", "cell4", "cell5"), "done" or "aborted"
  i,         \* number of tokens the loop of cell 5 has consumed
  out4,      \* lines printed by cell 4
  out5,      \* lines printed by cell 5
  err,       \* the exception that ended cell 4 or cell 5, "" when none
  calls,     \* history: every explain call made so far, as (term, result)
  nq         \* number of explain calls made outside the cells

vars == <<glossary, doc, pc, i, out4, out5, err, calls, nq>>

\* Longest token sequence the tagger returns besides the recorded one.
MaxTokens == 3
\* Number of explain queries typed outside the cells.
MaxQueries == 2

\* Field widths of the f-string of cell 5.
TextWidth == 10
PosWidth == 8
TagWidth == 6

(***************************************************************************)
(* Python values: explain returns a str or None; a call may also raise.    *)
(***************************************************************************)
None == [type |-> "NoneType"]
PyStr(s) == [type |-> "str", value |-> s]
Raise(e) == [type |-> "raise", exc |-> e]
IsRaise(r) == r.type = "raise"

\* format(v, ''): the text an f-string or print shows for an explain result.
Str(r) == IF r.type = "str" THEN r.value ELSE "None"

RECURSIVE Spaces(_)
Spaces(n) == IF n <= 0 THEN "" ELSE " " \o Spaces(n - 1)

\* format(s, str(w)) of a str: left-aligned, padded to w, never truncated.
Pad(s, w) == s \o Spaces(w - Len(s))

(***************************************************************************)
(* The tag table.                                                          *)
(***************************************************************************)
Row(c, k, d) == [code |-> c, category |-> k, description |-> d]

\* The coarse tags: the POS table of the notebook's last cell.
PosRows ==
  << Row("ADJ", "POS", "adjective"),
     Row("ADP", "POS", "adposition"),
     Row("ADV", "POS", "adverb"),
     Row("AUX", "POS", "auxiliary"),
     Row("CONJ", "POS", "conjunction"),
     Row("CCONJ", "POS", "coordinating conjunction"),
     Row("DET", "POS", "determiner"),
     Row("INTJ", "POS", "interjection"),
     Row("NOUN", "POS", "noun"),
     Row("NUM", "POS", "numeral"),
     Row("PART", "POS", "particle"),
     Row("PRON", "POS", "pronoun"),
     Row("PROPN", "POS", "proper noun"),
     Row("PUNCT", "POS", "punctuation"),
     Row("SCONJ", "POS", "subordinating conjunction"),
     Row("SYM", "POS", "symbol"),
     Row("VERB", "POS", "verb"),
     Row("X", "POS", "other"),
     Row("SPACE", "POS", "space") >>

\* The fine-grained tags the notebook's output shows with their descriptions.
TagRows ==
  << Row("DT", "FineGrained", "determiner"),
     Row("JJ", "FineGrained", "adjective"),
     Row("NN", "FineGrained", "noun, singular or mass"),
     Row("VBD", "FineGrained", "verb, past tense"),
     Row("IN", "FineGrained", "conjunction, subordinating or preposition"),
     Row("POS", "FineGrained", "possessive ending"),
     Row(".", "FineGrained", "punctuation mark, sentence closer") >>

GLOSSARY_Typo ==
  PosRows \o
  << Row("DT", "FineGrained", "determiner"),
     Row("JJ", "FineGrained", "adjective"),
     Row("NN", "FineGrained", "noun, singular or mass"),
     Row("VBD", "FineGrained", "verb, past participle"),
     Row("IN", "FineGrained", "conjunction, subordinating or preposition"),
     Row("POS", "FineGrained", "possessive ending"),
     Row(".", "FineGrained", "punctuation mark, sentence closer") >>

GLOSSARY_FineOnly == TagRows

\* The glossary spacy.explain reads.
GLOSSARY == PosRows \o TagRows

Codes(g) == {g[k].code : k \in 1..Len(g)}

Token(t, p, g) == [text |-> t, pos_ |-> p, tag_ |-> g]

\* The Doc the notebook recorded for its sentence (output of cell 5).
SampleDoc ==
  << Token("The", "DET", "DT"),
     Token("quick", "ADJ", "JJ"),
     Token("brown", "ADJ", "JJ"),
     Token("fox", "NOUN", "NN"),
     Token("jumped", "VERB", "VBD"),
     Token("over", "ADP", "IN"),
     Token("the", "DET", "DT"),
     Token("lazy", "ADJ", "JJ"),
     Token("dog", "NOUN", "NN"),
     Token("'s", "PART", "POS"),
     Token("back", "NOUN", "NN"),
     Token(".", "PUNCT", ".") >>

\* Tokens of the other Docs: two of the recorded ones, a word longer than the
\* text column, a token whose tag the glossary lacks and an untagged token.
TokenPool ==
  { Token("The", "DET", "DT"),
    Token("the", "DET", "DT"),
    Token("incomprehensible", "ADJ", "JJ"),
    Token("sfpksdpsxmsa", "X", "ZZZ"),
    Token("raw", "", "") }

RECURSIVE SeqsUpTo(_, _)
SeqsUpTo(S, n) ==
  IF n = 0 THEN {<<>>}
  ELSE LET shorter == SeqsUpTo(S, n - 1)
       IN  shorter \cup {Append(s, x) : s \in {t \in shorter : Len(t) = n - 1}, x \in S}

\* What nlp(text) may return.
TaggerOutputs == SeqsUpTo(TokenPool, MaxTokens) \cup {SampleDoc}

\* Terms typed into spacy.explain outside the cells.
QueryTerms == {"VBD", "DT", "dt", "DET", "ZZZ", ""}

(***************************************************************************)
(* spacy.explain                                                           *)
(***************************************************************************)
\* GLOSSARY[term] raises KeyError for a missing key.
ExplainSubscript(term) ==
  IF term \in Codes(glossary)
  THEN PyStr(glossary[CHOOSE k \in 1..Len(glossary) : glossary[k].code = term].description)
  ELSE Raise("KeyError")

\* A guard that rejects the empty term before the lookup.
ExplainRejectEmpty(term) ==
  IF term = "" THEN Raise("ValueError")
  ELSE IF term \in Codes(glossary)
  THEN PyStr(glossary[CHOOSE k \in 1..Len(glossary) : glossary[k].code = term].description)
  ELSE None

\* GLOSSARY.get(term, term): an unknown term is handed back as its own text.
ExplainEcho(term) ==
  IF term \in Codes(glossary)
  THEN PyStr(glossary[CHOOSE k \in 1..Len(glossary) : glossary[k].code = term].description)
  ELSE PyStr(term)

Lowers == "abcdefghijklmnopqrstuvwxyz"
Uppers == "ABCDEFGHIJKLMNOPQRSTUVWXYZ"

\* str.upper() of one character.
UpChar(c) ==
  IF \E k \in 1..Len(Lowers) : SubSeq(Lowers, k, k) = c
  THEN LET k == CHOOSE k \in 1..Len(Lowers) : SubSeq(Lowers, k, k) = c
       IN  SubSeq(Uppers, k, k)
  ELSE c

\* str.upper().
RECURSIVE Upper(_)
Upper(s) == IF s = "" THEN "" ELSE UpChar(SubSeq(s, 1, 1)) \o Upper(SubSeq(s, 2, Len(s)))

\* A lookup that normalises the case of the term first.
ExplainFold(term) ==
  IF Upper(term) \in Codes(glossary)
  THEN PyStr(glossary[CHOOSE k \in 1..Len(glossary) : glossary[k].code = Upper(term)].description)
  ELSE None

\* if term in GLOSSARY: return GLOSSARY[term]     (falls through to None)
Explain(term) ==
  IF term \in Codes(glossary)
  THEN PyStr(glossary[CHOOSE k \in 1..Len(glossary) : glossary[k].code = term].description)
  ELSE None

Call(term) == [term |-> term, result |-> Explain(term)]

(***************************************************************************)
(* The cells                                                               *)
(***************************************************************************)
\* print(a, b, c, d) of cell 4: the arguments separated by one space.
FifthLine(tok, r) == tok.text \o " " \o tok.pos_ \o " " \o tok.tag_ \o " " \o Str(r)

\* The f-string of cell 5 up to the description.
LinePrefix(tok) ==
  Pad(tok.text, TextWidth) \o " " \o Pad(tok.pos_, PosWidth) \o " "
    \o Pad(tok.tag_, TagWidth) \o " "

\* The f-string of cell 5.
FormatLine(tok, r) == LinePrefix(tok) \o Str(r)

\* State after cell 1: spacy imported, the model loaded, nothing printed.
Init ==
  /\ glossary = GLOSSARY
  /\ doc = <<>>
  /\ pc = "cell2"
  /\ i = 0
  /\ out4 = <<>>
  /\ out5 = <<>>
  /\ err = [c \in {"cell4", "cell5"} |-> ""]
  /\ calls = {}
  /\ nq = 0

\* Cell 2: doc = nlp(text).
CreateDoc ==
  /\ pc = "cell2"
  /\ \E d \in TaggerOutputs : doc' = d
  /\ pc' = "cell4"
  /\ UNCHANGED <<glossary, i, out4, out5, err, calls, nq>>

\* Cell 4: print(doc[4].text, doc[4].pos_, doc[4].tag_, spacy.explain(doc[4].tag_)).
\* doc[4] raises IndexError on a Doc of fewer than five tokens.
PrintFifth ==
  /\ pc = "cell4"
  /\ pc' = "cell5"
  /\ IF Len(doc) < 5
     THEN /\ err' = [err EXCEPT !["cell4"] = "IndexError"]
          /\ UNCHANGED <<out4, calls>>
     ELSE LET tok == doc[5]
              r == Explain(tok.tag_)
          IN  /\ calls' = calls \cup {Call(tok.tag_)}
              /\ IF IsRaise(r)
                 THEN err' = [err EXCEPT !["cell4"] = r.exc] /\ UNCHANGED out4
                 ELSE out4' = <<FifthLine(tok, r)>> /\ UNCHANGED err
  /\ UNCHANGED <<glossary, doc, i, out5, nq>>

\* The table without the rows of a code: what GLOSSARY.pop(term, None) leaves.
Without(g, term) == SelectSeq(g, LAMBDA row : row.code # term)

\* An iteration that consumes the entry it reads (GLOSSARY.pop for GLOSSARY.get).
LoopStepPop ==
  /\ pc = "cell5"
  /\ i < Len(doc)
  /\ LET tok == doc[i + 1]
         r == Explain(tok.tag_)
     IN  /\ calls' = calls \cup {Call(tok.tag_)}
         /\ out5' = Append(out5, FormatLine(tok, r))
         /\ i' = i + 1
         /\ glossary' = Without(glossary, tok.tag_)
  /\ UNCHANGED <<doc, pc, out4, err, nq>>

\* One iteration of cell 5: for token in doc: print(f'...').
LoopStep ==
  /\ pc = "cell5"
  /\ i < Len(doc)
  /\ LET tok == doc[i + 1]
         r == Explain(tok.tag_)
     IN  /\ calls' = calls \cup {Call(tok.tag_)}
         /\ IF IsRaise(r)
            THEN /\ err' = [err EXCEPT !["cell5"] = r.exc]
                 /\ pc' = "aborted"
                 /\ UNCHANGED <<i, out5>>
            ELSE /\ out5' = Append(out5, FormatLine(tok, r))
                 /\ i' = i + 1
                 /\ UNCHANGED <<err, pc>>
  /\ UNCHANGED <<glossary, doc, out4, nq>>

\* A loop that stops one token early (range(len(doc) - 1)).
LoopEndEarly ==
  /\ pc = "cell5"
  /\ i >= Len(doc) - 1
  /\ pc' = "done"
  /\ UNCHANGED <<glossary, doc, i, out4, out5, err, calls, nq>>

\* The iterator of cell 5 is exhausted.
LoopEnd ==
  /\ pc = "cell5"
  /\ i = Len(doc)
  /\ pc' = "done"
  /\ UNCHANGED <<glossary, doc, i, out4, out5, err, calls, nq>>

\* A query that consumes the entry it reads.
QueryPop(term) ==
  /\ nq < MaxQueries
  /\ nq' = nq + 1
  /\ calls' = calls \cup {Call(term)}
  /\ glossary' = Without(glossary, term)
  /\ UNCHANGED <<doc, pc, i, out4, out5, err>>

\* A query that memoises a miss as a new row of the table.
QueryMemo(term) ==
  /\ nq < MaxQueries
  /\ nq' = nq + 1
  /\ calls' = calls \cup {Call(term)}
  /\ glossary' = IF term \in Codes(glossary) THEN glossary
                 ELSE Append(glossary, Row(term, "FineGrained", ""))
  /\ UNCHANGED <<doc, pc, i, out4, out5, err>>

\* spacy.explain(term) typed at any point after the import.
Query(term) ==
  /\ nq < MaxQueries
  /\ nq' = nq + 1
  /\ calls' = calls \cup {Call(term)}
  /\ UNCHANGED <<glossary, doc, pc, i, out4, out5, err>>

Next ==
  \/ CreateDoc
  \/ PrintFifth
  \/ LoopStep
  \/ LoopEnd
  \/ \E term \in QueryTerms : Query(term)

Spec == Init /\ [][Next]_vars

(***************************************************************************)
(* Properties                                                              *)
(***************************************************************************)
\* The lines cell 5 printed for the recorded sentence.
SampleOutput ==
  << "The        DET      DT     determiner",
     "quick      ADJ      JJ     adjective",
     "brown      ADJ      JJ     adjective",
     "fox        NOUN     NN     noun, singular or mass",
     "jumped     VERB     VBD    verb, past tense",
     "over       ADP      IN     conjunction, subordinating or preposition",
     "the        DET      DT     determiner",
     "lazy       ADJ      JJ     adjective",
     "dog        NOUN     NN     noun, singular or mass",
     "'s         PART     POS    possessive ending",
     "back       NOUN     NN     noun, singular or mass",
     ".          PUNCT    .      punctuation mark, sentence closer" >>

Known == Codes(GLOSSARY)

\* C1: every call of explain with a term that is no code of the tag table
\* returned None (the unknown-sentinel) and did not raise, in a query or in
\* a cell.
C1_UnknownGivesNone ==
  /\ \A c \in calls : c.term \notin Known => c.result = None
  /\ \A cell \in DOMAIN err : err[cell] \in {"", "IndexError"}

C1_Witness ==
  /\ [term |-> "ZZZ", result |-> None] \in calls
  /\ [term |-> "dt", result |-> None] \in calls

C3_KnownStable ==
  /\ \A c \in calls : c.term \in Known => c.result.type = "str" /\ c.result.value # ""
  /\ \A c, d \in calls : c.term = d.term /\ c.term \in Known => c.result = d.result

C3_Witness ==
  /\ nq = MaxQueries
  /\ i >= 2
  /\ doc[1].tag_ = "DT"
  /\ doc[2].tag_ = "DT"
  /\ \A c \in calls : c.term = "DT"

\* C4: the calls of explain with VBD, DT, JJ, NN, IN, POS and "." returned the
\* descriptions the notebook shows, the call with ZZZ returned None, and cell
\* 4 printed the recorded line for the recorded sentence.
C4_Examples ==
  LET expected == ("VBD" :> PyStr("verb, past tense"))
                    @@ ("DT" :> PyStr("determiner"))
                    @@ ("JJ" :> PyStr("adjective"))
                    @@ ("NN" :> PyStr("noun, singular or mass"))
                    @@ ("IN" :> PyStr("conjunction, subordinating or preposition"))
                    @@ ("POS" :> PyStr("possessive ending"))
                    @@ ("." :> PyStr("punctuation mark, sentence closer"))
                    @@ ("ZZZ" :> None)
  IN  /\ \A c \in calls : c.term \in DOMAIN expected => c.result = expected[c.term]
      /\ doc = SampleDoc /\ pc \in {"cell5", "done"}
           => out4 = <<"jumped VERB VBD verb, past tense">>

C4_Witness ==
  /\ pc = "done"
  /\ doc = SampleDoc
  /\ out4 = <<"jumped VERB VBD verb, past tense">>
  /\ [term |-> "ZZZ", result |-> None] \in calls
  /\ {c.term : c \in calls} = {"VBD", "DT", "JJ", "NN", "IN", "POS", ".", "ZZZ"}

\* C5: the tag table gives no code two descriptions, and a call of explain
\* returned a description only for a term that is a code of the table
\* character for character: a term that differs from a code in letter case
\* only returned None.
C5_ExactMatch ==
  /\ \A j, k \in 1..Len(glossary) :
       glossary[j].code = glossary[k].code => glossary[j].description = glossary[k].description
  /\ \A c \in calls : c.result.type = "str" => c.term \in Codes(glossary)
  /\ \A c \in calls :
       c.term \notin Known /\ Upper(c.term) \in Known => c.result = None

C5_Witness ==
  /\ [term |-> "dt", result |-> None] \in calls
  /\ [term |-> "DT", result |-> PyStr("determiner")] \in calls

\* C6: the tag table is the table of the import in every state, and once
\* cell 2 has produced the Doc no step changes its tokens.
C6_NoSideEffects ==
  /\ [](glossary = GLOSSARY)
  /\ [][pc # "cell2" => doc' = doc]_vars

C6_Witness ==
  /\ pc = "done"
  /\ nq = MaxQueries
  /\ Len(doc) = MaxTokens
  /\ \E c \in calls : c.term \in Known
  /\ \E c \in calls : c.term \notin Known
  /\ glossary = GLOSSARY

\* C7: explain returns the description of its row for every coarse code of
\* the POS table as it does for the fine-grained codes, DET and DT share a
\* description, ADJ and JJ share one, and each code has one description.
C7_EitherType ==
  /\ \A k \in 1..Len(PosRows) : Explain(PosRows[k].code) = PyStr(PosRows[k].description)
  /\ \A k \in 1..Len(TagRows) : Explain(TagRows[k].code) = PyStr(TagRows[k].description)
  /\ Explain("DET") = Explain("DT")
  /\ Explain("ADJ") = Explain("JJ")
  /\ \A c \in calls : c.term = "DET" => c.result = PyStr("determiner")
  /\ Cardinality(Codes(glossary)) = Len(glossary)

C7_Witness ==
  /\ [term |-> "DET", result |-> PyStr("determiner")] \in calls
  /\ [term |-> "DT", result |-> PyStr("determiner")] \in calls

\* C8: cell 5 has printed one line for each of the first i tokens, in their
\* order, each with the token's own text, POS, tag and the explanation of
\* the tag; it ends only after the last token, and for the recorded sentence
\* the lines are the recorded ones.
C8_OneLinePerToken ==
  /\ Len(out5) = i
  /\ i <= Len(doc)
  /\ \A k \in 1..Len(out5) :
       out5[k] = Pad(doc[k].text, TextWidth) \o " " \o Pad(doc[k].pos_, PosWidth) \o " "
                   \o Pad(doc[k].tag_, TagWidth) \o " " \o Str(Explain(doc[k].tag_))
  /\ pc = "done" => Len(out5) = Len(doc)
  /\ pc = "done" /\ doc = SampleDoc => out5 = SampleOutput

C8_Witness ==
  /\ pc = "done"
  /\ doc = SampleDoc
  /\ out5 = SampleOutput

\* C9: two lines of cell 5 printed for tokens with the same fine-grained tag
\* end in the same description, whatever queries were made in between.
C9_SameTagSameDescription ==
  \A j, k \in 1..Len(out5) :
    doc[j].tag_ = doc[k].tag_ =>
      \E d \in {Str(c.result) : c \in calls} :
        /\ out5[j] = LinePrefix(doc[j]) \o d
        /\ out5[k] = LinePrefix(doc[k]) \o d

C9_Witness ==
  /\ pc = "done"
  /\ doc = SampleDoc
  /\ nq > 0
  /\ out5[1] = "The        DET      DT     determiner"
  /\ out5[7] = "the        DET      DT     determiner"

\* C10: a token whose tag is no code of the table does not abort cell 5: its
\* line is printed with "None" as the description and the loop goes on to the
\* last token.
C10_UnknownTagGoesOn ==
  /\ pc # "aborted"
  /\ err["cell5"] = ""
  /\ \A k \in 1..Len(out5) :
       doc[k].tag_ \notin Known => out5[k] = LinePrefix(doc[k]) \o "None"
  /\ pc = "done" => Len(out5) = Len(doc)

C10_Witness ==
  /\ pc = "done"
  /\ Len(doc) = MaxTokens
  /\ doc[1].tag_ = "ZZZ"
  /\ doc[Len(doc)].tag_ = "DT"
  /\ out5[1] = "sfpksdpsxmsa X        ZZZ    None"
  /\ Len(out5) = Len(doc)

====
